---------------------------- MODULE Spec2Model ----------------------------
(***************************************************************************)
(* A model of the kingdom_archives crawl engine: CrawlState (state.py),    *)
(* the URL helpers (parser.py), the fetch guard (client.py), the download  *)
(* writer (downloader.py) and the Crawler loop (crawler.py).               *)
(*                                                                         *)
(* Strings are sequences of atoms (short string pieces); "x in s",         *)
(* endswith and lower() are computed on those sequences.  Every input URL  *)
(* is cut into atoms at the places where the code's patterns can match.    *)
(***************************************************************************)
EXTENDS Integers, Sequences, FiniteSets, TLC

(***************************************************************************)
(* Bounds of the model.                                                    *)
(***************************************************************************)
\* config.depth ranges over 0..MaxDepthCfg
MaxDepthCfg == 1
\* number of times a Crawler is constructed (process starts)
MaxRuns == 2

(***************************************************************************)
(* String helpers over atom sequences.                                     *)
(***************************************************************************)
SeqToSet(s) == {s[i] : i \in 1..Len(s)}

\* Python "p in s" on strings
IsSubstr(p, s) == \E i \in 0..(Len(s) - Len(p)) : SubSeq(s, i + 1, i + Len(p)) = p

\* Python s.endswith(suf)
EndsWith(s, suf) ==
    /\ Len(suf) <= Len(s)
    /\ SubSeq(s, Len(s) - Len(suf) + 1, Len(s)) = suf

LowerAtom(a) ==
    CASE a = ".MP3" -> ".mp3"
      [] a = ".HTML" -> ".html"
      [] a = ".HTM" -> ".htm"
      [] a = ".JPG" -> ".jpg"
      [] a = ".PDF" -> ".pdf"
      [] a = ":PLAIN" -> ":plain"
      [] a = "S" -> "s"
      [] OTHER -> a

\* Python s.lower()
Lower(s) == [i \in 1..Len(s) |-> LowerAtom(s[i])]

\* index of the first atom of s that is in set, Len(s)+1 when there is none
FirstIn(s, set) ==
    IF \E i \in 1..Len(s) : s[i] \in set
    THEN CHOOSE i \in 1..Len(s) : s[i] \in set /\ \A j \in 1..(i - 1) : s[j] \notin set
    ELSE Len(s) + 1

\* index of the last atom of s that is in set, 0 when there is none
LastIn(s, set) ==
    IF \E i \in 1..Len(s) : s[i] \in set
    THEN CHOOSE i \in 1..Len(s) : s[i] \in set /\ \A j \in (i + 1)..Len(s) : s[j] \notin set
    ELSE 0

(***************************************************************************)
(* urllib.parse.urlparse and urljoin, on atom sequences.                   *)
(***************************************************************************)
urlparse(u) ==
    LET hasScheme == Len(u) >= 2 /\ u[2] = "://"
        rest      == IF hasScheme THEN SubSeq(u, 3, Len(u)) ELSE u
        nEnd      == IF hasScheme THEN FirstIn(rest, {"/", "?", "#"}) ELSE 1
        afterN    == SubSeq(rest, nEnd, Len(rest))
        fpos      == FirstIn(afterN, {"#"})
        beforeF   == SubSeq(afterN, 1, fpos - 1)
        qpos      == FirstIn(beforeF, {"?"})
    IN  [scheme   |-> IF hasScheme THEN <<u[1]>> ELSE <<>>,
         netloc   |-> SubSeq(rest, 1, nEnd - 1),
         path     |-> SubSeq(beforeF, 1, qpos - 1),
         query    |-> SubSeq(beforeF, qpos + 1, Len(beforeF)),
         fragment |-> SubSeq(afterN, fpos + 1, Len(afterN))]

\* the hostname of a netloc: what follows the last "@", up to the port's ":",
\* lower-cased
hostname(netloc) ==
    LET hostinfo == SubSeq(netloc, LastIn(netloc, {"@"}) + 1, Len(netloc))
    IN  Lower(SubSeq(hostinfo, 1, FirstIn(hostinfo, {":"}) - 1))

\* urlsplit raises ValueError("Invalid IPv6 URL") on an unbalanced bracket in netloc
UrlRaises(u) ==
    LET n == urlparse(u).netloc
    IN  ("[" \in SeqToSet(n)) # ("]" \in SeqToSet(n))

\* urljoin(base, value) for an absolute base: an absolute value is kept, a
\* fragment-only value replaces the fragment, a root-relative value replaces
\* the path, any other value is merged with the directory of the base path
urljoin(base, value) ==
    LET b      == urlparse(base)
        origin == b.scheme \o <<"://">> \o b.netloc
        noFrag == SubSeq(base, 1, FirstIn(base, {"#"}) - 1)
        dir    == SubSeq(b.path, 1, LastIn(b.path, {"/"}))
    IN  IF value = <<>> THEN base
        ELSE IF Len(value) >= 2 /\ value[2] = "://" THEN value
        ELSE IF value[1] = "#" THEN noFrag \o value
        ELSE IF value[1] = "/" THEN origin \o value
        ELSE origin \o (IF dir = <<>> THEN <<"/">> ELSE dir) \o value


(***************************************************************************)
(* parser.py                                                               *)
(***************************************************************************)
AudioExt == {".mp3", ".wav", ".ogg", ".flac", ".aac", ".m4a"}
ImagesExt == {".jpg", ".jpeg", ".png", ".gif", ".webp", ".svg"}
DocumentsExt == {".pdf", ".doc", ".docx", ".txt", ".csv", ".xls", ".xlsx"}

\* MEDIA_EXTENSIONS, in the dict's iteration order
MEDIA_EXTENSIONS ==
    << [label |-> "audio", extensions |-> AudioExt],
       [label |-> "images", extensions |-> ImagesExt],
       [label |-> "documents", extensions |-> DocumentsExt] >>

classify_urlMutCase(url) ==
    LET path == urlparse(url).path
        hit(k) == \E ext \in MEDIA_EXTENSIONS[k].extensions : EndsWith(path, <<ext>>)
    IN  IF \E k \in 1..Len(MEDIA_EXTENSIONS) : hit(k)
        THEN MEDIA_EXTENSIONS[CHOOSE k \in 1..Len(MEDIA_EXTENSIONS) :
                                 hit(k) /\ \A j \in 1..(k - 1) : ~hit(j)].label
        ELSE IF EndsWith(path, <<":plain">>) THEN "documents"
        ELSE IF \/ EndsWith(path, <<".html">>)
                \/ EndsWith(path, <<".htm">>)
                \/ EndsWith(path, <<"/">>) THEN "html"
        ELSE "other"

\* classify_url raises what urlparse raises
classify_url_raises(url) == UrlRaises(url)

classify_url(url) ==
    LET path == Lower(urlparse(url).path)
        hit(k) == \E ext \in MEDIA_EXTENSIONS[k].extensions : EndsWith(path, <<ext>>)
    IN  IF \E k \in 1..Len(MEDIA_EXTENSIONS) : hit(k)
        THEN MEDIA_EXTENSIONS[CHOOSE k \in 1..Len(MEDIA_EXTENSIONS) :
                                 hit(k) /\ \A j \in 1..(k - 1) : ~hit(j)].label
        ELSE IF EndsWith(path, <<":plain">>) THEN "documents"
        ELSE IF \/ EndsWith(path, <<".html">>)
                \/ EndsWith(path, <<".htm">>)
                \/ EndsWith(path, <<"/">>) THEN "html"
        ELSE "other"

\* add_link applied to each value in turn: resolve against the page URL and
\* append unless the collection already holds it
RECURSIVE add_links(_, _, _)
add_links(collection, page_url, values) ==
    IF values = <<>> THEN collection
    ELSE LET absolute == urljoin(page_url, Head(values))
         IN  add_links(IF absolute \in SeqToSet(collection)
                       THEN collection
                       ELSE Append(collection, absolute),
                       page_url, Tail(values))

\* html is the parsed document: the href values of its <a> tags, the src
\* values of its img/audio/source/video tags and the href values of its
\* <link> tags, each in document order
extract_links(page_url, html) ==
    [links  |-> add_links(<<>>, page_url, html.a),
     assets |-> add_links(add_links(<<>>, page_url, html.src), page_url, html.link)]

\* urljoin raises ValueError on a malformed value
extract_links_raises(page_url, html) ==
    \E v \in SeqToSet(html.a) \cup SeqToSet(html.src) \cup SeqToSet(html.link) :
        UrlRaises(urljoin(page_url, v))

filter_domain(urls, allowed_domain) ==
    SelectSeq(urls, LAMBDA url :
        /\ urlparse(url).scheme # <<>>
        /\ IsSubstr(allowed_domain, urlparse(url).netloc))

(***************************************************************************)
(* config.py                                                               *)
(***************************************************************************)
matches_include(config, url) ==
    IF config.include_patterns = <<>> THEN TRUE
    ELSE \E i \in 1..Len(config.include_patterns) :
            IsSubstr(config.include_patterns[i], url)

matches_exclude(config, url) ==
    \E i \in 1..Len(config.exclude_patterns) :
        IsSubstr(config.exclude_patterns[i], url)

(***************************************************************************)
(* client.py                                                               *)
(***************************************************************************)
\* TRUE when _validate_domain raises ValueError
validate_domain_raises(url, allowed_domain) ==
    LET netloc == urlparse(url).netloc
    IN  netloc # <<>> /\ ~IsSubstr(allowed_domain, netloc)

(***************************************************************************)
(* downloader.py                                                           *)
(***************************************************************************)
MEDIA_DIR_MAP(classification) ==
    CASE classification = "audio" -> "media/audio"
      [] classification = "images" -> "media/images"
      [] classification = "documents" -> "media/documents"
      [] classification = "html" -> "html"
      [] classification = "other" -> "media/other"
      [] OTHER -> "media/other"

\* the atoms that are a file suffix (Path.suffix of the last path segment)
SuffixAtoms ==
    AudioExt \cup ImagesExt \cup DocumentsExt \cup {".html", ".htm", ".MP3", ".HTML"}

\* _extension_from_type: the subtype of the content type when it has one,
\* else the suffix of the URL path's last segment
extension_from_type(content_type, original_path) ==
    LET slash   == FirstIn(content_type, {"/"})
        afterS  == SubSeq(content_type, slash + 1, Len(content_type))
        subtype == SubSeq(afterS, 1, FirstIn(afterS, {";"}) - 1)
        last    == IF original_path = <<>> THEN "" ELSE original_path[Len(original_path)]
    IN  IF slash <= Len(content_type) /\ subtype # <<>>
        THEN <<".">> \o subtype
        ELSE IF last \in SuffixAtoms THEN <<last>> ELSE <<>>

\* path.rstrip("/")
RECURSIVE rstrip_slash(_)
rstrip_slash(p) ==
    IF p # <<>> /\ p[Len(p)] = "/" THEN rstrip_slash(SubSeq(p, 1, Len(p) - 1)) ELSE p

\* slugify(stem.replace("/", "-")): lower-case, separators collapsed to "-",
\* no leading or trailing "-"
RECURSIVE slug_atoms(_)
slug_atoms(p) ==
    IF p = <<>> THEN <<>>
    ELSE LET a == LowerAtom(Head(p))
         IN  IF a \in {"/", "-", "#", "?", "://"} THEN slug_atoms(Tail(p))
             ELSE <<a>> \o slug_atoms(Tail(p))

target_path(url, classification, content_type) ==
    LET parsed == urlparse(url)
        strip  == rstrip_slash(parsed.path)
        stem   == IF strip = <<>> THEN <<"index">> ELSE strip
        slug   == IF slug_atoms(stem) = <<>> THEN <<"asset">> ELSE slug_atoms(stem)
    IN  [dir  |-> MEDIA_DIR_MAP(classification),
         slug |-> slug,
         ext  |-> extension_from_type(content_type, parsed.path)]


(***************************************************************************)
(* state.py                                                                *)
(***************************************************************************)
CrawlQueueItem(url, depth) == [url |-> url, depth |-> depth]

\* the contents of the state file: absent, the text of a checkpoint, or what
\* an interrupted write_text leaves (the file truncated by open("w"), or a
\* proper prefix of the JSON text, which never parses)
NoFile == [kind |-> "none"]
EmptyFile == [kind |-> "empty"]
PartialFile == [kind |-> "partial"]

\* every URL the model can hold, in a fixed order: list(set) enumerates a
\* set in an order the program does not choose; the model writes it in this
\* order or in the reverse one
RECURSIVE SetToList(_, _)
SetToList(set, order) ==
    IF order = <<>> THEN <<>>
    ELSE IF Head(order) \in set
         THEN <<Head(order)>> \o SetToList(set, Tail(order))
         ELSE SetToList(set, Tail(order))

Reverse(s) == [i \in 1..Len(s) |-> s[Len(s) + 1 - i]]

\* to_dict followed by json.dumps: the queue as a list of {url, depth}
\* objects in queue order, visited as a list
to_dict(state, order) ==
    [kind    |-> "json",
     queue   |-> [i \in 1..Len(state.queue) |->
                     [url |-> state.queue[i].url, depth |-> state.queue[i].depth]],
     visited |-> SetToList(state.visited, order)]

from_dictMutDropVisited(data) ==
    [queue   |-> [i \in 1..Len(data.queue) |->
                     CrawlQueueItem(data.queue[i].url, data.queue[i].depth)],
     visited |-> {}]

from_dictMutReversed(data) ==
    [queue   |-> [i \in 1..Len(data.queue) |->
                     CrawlQueueItem(data.queue[Len(data.queue) + 1 - i].url,
                                    data.queue[Len(data.queue) + 1 - i].depth)],
     visited |-> SeqToSet(data.visited)]

\* from_dict: a deque of the items in list order, and the set of the list
from_dict(data) ==
    [queue   |-> [i \in 1..Len(data.queue) |->
                     CrawlQueueItem(data.queue[i].url, data.queue[i].depth)],
     visited |-> SeqToSet(data.visited)]

enqueue(q, url, depth) == Append(q, CrawlQueueItem(url, depth))

dequeueMutPop(q) == [item |-> q[Len(q)], queue |-> SubSeq(q, 1, Len(q) - 1)]

\* dequeue on a queue that is not empty: popleft returns the leftmost item
dequeue(q) == [item |-> Head(q), queue |-> Tail(q)]

\* dequeue: popleft on an empty deque raises IndexError
dequeue_raises(q) == q = <<>>

\* load: the empty state when no file exists, else from_dict(json.loads(text));
\* json.loads raises on an empty or cut-off text
load_raises(file) == file.kind \in {"empty", "partial"}

loadMutFresh(file) == [queue |-> <<>>, visited |-> {}]

load(file) ==
    IF file.kind = "none" THEN [queue |-> <<>>, visited |-> {}]
    ELSE from_dict(file)


(***************************************************************************)
(* The inputs: the configuration, the URLs and the server's responses.     *)
(***************************************************************************)
AllowedDomain == <<"k.io">>
StartUrl == <<"https", "://", "k.io", "/">>
PageA == <<"https", "://", "k.io", "/", "a", ".html">>
PageC == <<"https", "://", "k.io", "/", "c", ".html">>
SoundUrl == <<"https", "://", "k.io", "/", "S", ".MP3">>
EvilUrl == <<"https", "://", "evil.com", "/">>

\* a second site under /d/ on the allowed host: an index whose page links to
\* page 1 and names page h in a <link> tag; page 1 links to page 2, page h to
\* page 3 and page 2 to page 3
DeepStart == <<"https", "://", "k.io", "/", "d", "/">>
Deep1 == <<"https", "://", "k.io", "/", "d", "/", "1", ".html">>
Deep2 == <<"https", "://", "k.io", "/", "d", "/", "2", ".html">>
Deep3 == <<"https", "://", "k.io", "/", "d", "/", "3", ".html">>
DeepH == <<"https", "://", "k.io", "/", "d", "/", "h", ".html">>
DeepUrls == {DeepStart, Deep1, Deep2, Deep3, DeepH}

\* a URL on another host that carries the allowed domain as userinfo; page 3
\* of the site under /d/ links to it
UserinfoUrl == <<"https", "://", "k.io", "@", "evil.com", "/">>

\* the order list(set) is written in (see SetToList)
UrlOrder ==
    <<StartUrl, PageA, PageC, SoundUrl, EvilUrl, DeepStart, Deep1, Deep2, Deep3, DeepH,
      UserinfoUrl>>
ListOrders == {UrlOrder, Reverse(UrlOrder)}

\* href and src values as they stand in a document
RelA == <<"/", "a", ".html">>
RelC == <<"/", "c", ".html">>
RelRoot == <<"/">>
FragTop == <<"#", "top">>
BadHref == <<"http", "://", "[">>

CtHtml == <<"text", "/", "html">>
CtAudio == <<"audio", "/", "mpeg">>

\* what session.get can return for a URL: the Content-Type header and the
\* document (read only when the URL is classified html)
Responses ==
    { [content_type |-> CtAudio, a |-> <<>>, src |-> <<>>, link |-> <<>>],
      [content_type |-> CtHtml, a |-> <<RelA, PageA, EvilUrl>>,
       src |-> <<SoundUrl>>, link |-> <<>>],
      [content_type |-> <<>>, a |-> <<RelRoot, RelC, FragTop>>,
       src |-> <<>>, link |-> <<RelC>>],
      [content_type |-> CtHtml, a |-> <<BadHref>>, src |-> <<>>, link |-> <<>>] }

\* the documents of the site under /d/, with relative hrefs
DeepPage(url) ==
    [content_type |-> CtHtml,
     a    |-> CASE url = DeepStart -> << <<"1", ".html">> >>
                [] url = Deep1 -> << <<"2", ".html">> >>
                [] url = DeepH -> << <<"3", ".html">> >>
                [] url = Deep2 -> << <<"3", ".html">> >>
                [] url = Deep3 -> << UserinfoUrl >>
                [] OTHER -> <<>>,
     src  |-> <<>>,
     link |-> IF url = DeepStart THEN << <<"h", ".html">> >> ELSE <<>>]

\* what session.get can return for url
ResponsesOf(url) ==
    IF url \in DeepUrls \cup {UserinfoUrl} THEN {DeepPage(url)} ELSE Responses

Configs ==
    [start_url : {StartUrl, EvilUrl},
     allowed_domain : {AllowedDomain},
     depth : 0..MaxDepthCfg,
     execute_downloads : BOOLEAN,
     include_patterns : {<<>>},
     exclude_patterns : {<<>>}]

NoCall == [fn |-> "none"]
NoItem == [url |-> <<>>, depth |-> -1]
NoResult == [status |-> "none"]
Failed == [status |-> "raised"]
HttpResult(url, r) ==
    [status |-> "ok", url |-> url, status_code |-> 200,
     content_type |-> r.content_type, content |-> [a |-> r.a, src |-> r.src, link |-> r.link]]

VARIABLES
    config,        \* the ScraperConfig of the crawl
    pc,            \* where the main thread is
    wpc,           \* where the pool worker that runs _process_url is
    queue,         \* Crawler.state.queue
    visited,       \* Crawler.state.visited
    item,          \* the item of the current loop iteration
    result,        \* what http.get returned or raised for the item
    last,          \* how the latest loop iteration branched or ended
    stateFile,     \* manifests/crawl-state.json
    files,         \* the files written under the archive root
    manifest,      \* manifests/downloads.log, one record per line
    closed,        \* the HTTP session is closed
    runs,          \* number of Crawler constructions so far
    runFetches,    \* history: http.get calls per URL in the current run
    totalFetches,  \* history: http.get calls per URL over all runs
    ckpt,          \* history: the text of the last persist that completed
    dropped,       \* history: URLs discarded for depth in the current run
    assetRefs,     \* history: URLs enqueued by _enqueue_assets
    trace,         \* the latest call of a function exercised on its own
    deepest,       \* history: the greatest depth dispatched in the current run
    requested,     \* history: the URLs session.get was called for, over all runs
    afterDone      \* history: the current run was built after a run that reached DONE

vars ==
    <<config, pc, wpc, queue, visited, item, result, last, stateFile, files, manifest,
      closed, runs, runFetches, totalFetches, ckpt, dropped, assetRefs, trace, deepest,
      requested, afterDone>>

Urls == SeqToSet(UrlOrder)
NoFetches == [u \in Urls |-> 0]

Init ==
    /\ config \in Configs
    /\ pc = "off"
    /\ wpc = "idle"
    /\ trace = NoCall
    /\ deepest = 0
    /\ requested = {}
    /\ afterDone = FALSE
    /\ queue = <<>>
    /\ visited = {}
    /\ item = NoItem
    /\ result = NoResult
    /\ last = "none"
    /\ stateFile = NoFile
    /\ files = {}
    /\ manifest = <<>>
    /\ closed = FALSE
    /\ runs = 0
    /\ runFetches = NoFetches
    /\ totalFetches = NoFetches
    /\ ckpt = NoFile
    /\ dropped = {}
    /\ assetRefs = {}


(***************************************************************************)
(* crawler.py                                                              *)
(***************************************************************************)
should_visitMutIncludeWins(cfg, vis, url) ==
    IF cfg.include_patterns # <<>> /\ matches_include(cfg, url) THEN url \notin vis
    ELSE IF matches_exclude(cfg, url) THEN FALSE
    ELSE IF ~matches_include(cfg, url) THEN FALSE
    ELSE IF urlparse(url).fragment # <<>> THEN FALSE
    ELSE IF url \in vis THEN FALSE
    ELSE TRUE

should_visit(cfg, vis, url) ==
    IF matches_exclude(cfg, url) THEN FALSE
    ELSE IF ~matches_include(cfg, url) THEN FALSE
    ELSE IF urlparse(url).fragment # <<>> THEN FALSE
    ELSE IF url \in vis THEN FALSE
    ELSE TRUE

\* the URLs of a list that _enqueue_new / _enqueue_assets pass to enqueue
to_visit(cfg, vis, urls) == SelectSeq(urls, LAMBDA url : should_visit(cfg, vis, url))

\* _enqueue_new: one enqueue per accepted link, in list order
RECURSIVE enqueue_new(_, _, _)
enqueue_new(q, links, depth) ==
    IF links = <<>> THEN q
    ELSE enqueue_new(enqueue(q, Head(links), depth), Tail(links), depth)

enqueue_assetsMutDepth(q, assets) == enqueue_new(q, assets, 1)

\* _enqueue_assets: one enqueue at depth 0 per accepted asset reference
enqueue_assets(q, assets) == enqueue_new(q, assets, 0)

skip_reasonMutNoVisited(it, cfg, vis) ==
    IF it.depth > cfg.depth THEN "depth" ELSE "none"

skip_reasonMutNoDepth(it, cfg, vis) ==
    IF it.url \in vis THEN "visited" ELSE "none"

\* the two guards at the head of the loop body, in the code's order
skip_reason(it, cfg, vis) ==
    IF it.depth > cfg.depth THEN "depth"
    ELSE IF it.url \in vis THEN "visited"
    ELSE "none"

\* "wait" is the main thread inside as_completed / completed.result()
Running == {"loop", "wait", "persist", "persist_write"}
WorkerAt == {"idle", "fetch", "route", "returned", "raised"}
Ended == {"off", "stopped", "done", "raised_item", "raised_persist", "load_error"}

ConstructMutAlwaysSeed ==
    /\ pc \in Ended
    /\ runs < MaxRuns
    /\ ~load_raises(stateFile)
    /\ LET st == load(stateFile)
       IN  /\ queue' = enqueue(st.queue, config.start_url, 0)
           /\ visited' = st.visited
    /\ pc' = "loop"
    /\ wpc' = "idle"
    /\ item' = NoItem
    /\ result' = NoResult
    /\ last' = "none"
    /\ closed' = FALSE
    /\ runs' = runs + 1
    /\ runFetches' = NoFetches
    /\ dropped' = {}
    /\ deepest' = 0
    /\ afterDone' = (pc = "done")
    /\ UNCHANGED <<requested, trace, config, stateFile, files, manifest, totalFetches, ckpt, assetRefs>>

\* Crawler.__init__ when load succeeds
Construct ==
    /\ pc \in Ended
    /\ runs < MaxRuns
    /\ ~load_raises(stateFile)
    /\ LET st == load(stateFile)
       IN  /\ queue' = IF st.queue = <<>> THEN enqueue(st.queue, config.start_url, 0)
                       ELSE st.queue
           /\ visited' = st.visited
    /\ pc' = "loop"
    /\ wpc' = "idle"
    /\ item' = NoItem
    /\ result' = NoResult
    /\ last' = "none"
    /\ closed' = FALSE
    /\ runs' = runs + 1
    /\ runFetches' = NoFetches
    /\ dropped' = {}
    /\ deepest' = 0
    /\ afterDone' = (pc = "done")
    /\ UNCHANGED <<requested, trace, config, stateFile, files, manifest, totalFetches, ckpt, assetRefs>>

\* Crawler.__init__ when json.loads raises on the state file
ConstructLoadRaises ==
    /\ pc \in Ended
    /\ runs < MaxRuns
    /\ load_raises(stateFile)
    /\ pc' = "load_error"
    /\ wpc' = "idle"
    /\ queue' = <<>>
    /\ visited' = {}
    /\ item' = NoItem
    /\ result' = NoResult
    /\ last' = "none"
    /\ runs' = runs + 1
    /\ runFetches' = NoFetches
    /\ dropped' = {}
    /\ deepest' = 0
    /\ afterDone' = (pc = "done")
    /\ UNCHANGED <<requested, trace, config, stateFile, files, manifest, closed, totalFetches, ckpt, assetRefs>>

\* run, one iteration that ends at "continue" for depth
DequeueSkipDepth ==
    /\ pc = "loop"
    /\ queue # <<>>
    /\ skip_reason(Head(queue), config, visited) = "depth"
    /\ item' = Head(queue)
    /\ queue' = Tail(queue)
    /\ last' = "depth_skip"
    /\ dropped' = dropped \cup {Head(queue).url}
    /\ UNCHANGED <<afterDone, requested, deepest, trace, wpc, config, pc, visited, result, stateFile, files, manifest, closed,
                   runs, runFetches, totalFetches, ckpt, assetRefs>>

\* run, one iteration that ends at "continue" for a visited URL
DequeueSkipVisited ==
    /\ pc = "loop"
    /\ queue # <<>>
    /\ skip_reason(Head(queue), config, visited) = "visited"
    /\ item' = Head(queue)
    /\ queue' = Tail(queue)
    /\ last' = "visited_skip"
    /\ UNCHANGED <<afterDone, requested, deepest, trace, wpc, config, pc, visited, result, stateFile, files, manifest, closed,
                   runs, runFetches, totalFetches, ckpt, dropped, assetRefs>>

DequeueAcceptMutNoAwait ==
    /\ pc = "loop"
    /\ queue # <<>>
    /\ skip_reason(Head(queue), config, visited) = "none"
    /\ item' = Head(queue)
    /\ queue' = Tail(queue)
    /\ visited' = visited \cup {Head(queue).url}
    /\ last' = "dispatched"
    /\ result' = NoResult
    /\ pc' = "loop"
    /\ wpc' = "fetch"
    /\ deepest' = IF Head(queue).depth > deepest THEN Head(queue).depth ELSE deepest
    /\ UNCHANGED <<afterDone, requested, trace, config, stateFile, files, manifest, closed, runs, runFetches,
                   totalFetches, ckpt, dropped, assetRefs>>

\* run, one iteration up to executor.submit: the worker starts _process_url
DequeueAccept ==
    /\ pc = "loop"
    /\ queue # <<>>
    /\ skip_reason(Head(queue), config, visited) = "none"
    /\ item' = Head(queue)
    /\ queue' = Tail(queue)
    /\ visited' = visited \cup {Head(queue).url}
    /\ last' = "dispatched"
    /\ result' = NoResult
    /\ pc' = "wait"
    /\ wpc' = "fetch"
    /\ deepest' = IF Head(queue).depth > deepest THEN Head(queue).depth ELSE deepest
    /\ UNCHANGED <<afterDone, requested, trace, config, stateFile, files, manifest, closed, runs, runFetches,
                   totalFetches, ckpt, dropped, assetRefs>>

\* run, the loop ends on an empty queue: the executor shuts down, http.close()
LoopExit ==
    /\ pc = "loop"
    /\ queue = <<>>
    /\ pc' = "done"
    /\ closed' = TRUE
    /\ UNCHANGED <<afterDone, requested, deepest, trace, wpc, config, queue, visited, item, result, last, stateFile, files,
                   manifest, runs, runFetches, totalFetches, ckpt, dropped, assetRefs>>

CountFetch ==
    /\ runFetches' = [runFetches EXCEPT ![item.url] = @ + 1]
    /\ totalFetches' = [totalFetches EXCEPT ![item.url] = @ + 1]

\* HttpClient.get: _validate_domain raises on every attempt
HttpGetRejected ==
    /\ wpc = "fetch"
    /\ validate_domain_raises(item.url, config.allowed_domain)
    /\ result' = Failed
    /\ wpc' = "route"
    /\ CountFetch
    /\ UNCHANGED <<afterDone, requested, deepest, trace, pc, config, queue, visited, item, last, stateFile, files, manifest,
                   closed, runs, ckpt, dropped, assetRefs>>

\* HttpClient.get: the request fails on every attempt
HttpGetRaises ==
    /\ wpc = "fetch"
    /\ ~validate_domain_raises(item.url, config.allowed_domain)
    /\ result' = Failed
    /\ wpc' = "route"
    /\ CountFetch
    /\ requested' = requested \cup {item.url}
    /\ UNCHANGED afterDone
    /\ UNCHANGED <<deepest, trace, pc, config, queue, visited, item, last, stateFile, files, manifest,
                   closed, runs, ckpt, dropped, assetRefs>>

\* HttpClient.get: an attempt succeeds
HttpGetOk ==
    /\ wpc = "fetch"
    /\ ~validate_domain_raises(item.url, config.allowed_domain)
    /\ \E r \in ResponsesOf(item.url) : result' = HttpResult(item.url, r)
    /\ wpc' = "route"
    /\ CountFetch
    /\ requested' = requested \cup {item.url}
    /\ UNCHANGED afterDone
    /\ UNCHANGED <<deepest, trace, pc, config, queue, visited, item, last, stateFile, files, manifest,
                   closed, runs, ckpt, dropped, assetRefs>>


\* a handler raises inside the worker: the future holds the exception
WorkerRaises ==
    /\ wpc' = "raised"
    /\ result' = NoResult
    /\ last' = "raised"

ProcessFetchFailedMutRequeue ==
    /\ wpc = "route"
    /\ result = Failed
    /\ result' = NoResult
    /\ last' = "fetch_failed"
    /\ wpc' = "returned"
    /\ queue' = enqueue(queue, item.url, item.depth)
    /\ UNCHANGED <<afterDone, requested, deepest, trace, pc, config, visited, item, stateFile, files, manifest, closed,
                   runs, runFetches, totalFetches, ckpt, dropped, assetRefs>>

\* _process_url: http.get raised; print and return
ProcessFetchFailed ==
    /\ wpc = "route"
    /\ result = Failed
    /\ result' = NoResult
    /\ last' = "fetch_failed"
    /\ wpc' = "returned"
    /\ UNCHANGED <<afterDone, requested, deepest, trace, pc, config, queue, visited, item, stateFile, files, manifest, closed,
                   runs, runFetches, totalFetches, ckpt, dropped, assetRefs>>

IsHtmlResult == wpc = "route" /\ result.status = "ok" /\ classify_url(item.url) = "html"
IsAssetResult == wpc = "route" /\ result.status = "ok" /\ classify_url(item.url) # "html"

HtmlFile == [path |-> target_path(item.url, "html", result.content_type), kind |-> "content"]

\* _handle_html runs to its end
HandleHtml ==
    /\ IsHtmlResult
    /\ ~extract_links_raises(item.url, result.content)
    /\ files' = files \cup {HtmlFile}
    /\ LET ex            == extract_links(item.url, result.content)
           scoped_links  == filter_domain(ex.links, config.allowed_domain)
           scoped_assets == filter_domain(ex.assets, config.allowed_domain)
           new_links     == to_visit(config, visited, scoped_links)
           new_assets    == to_visit(config, visited, scoped_assets)
       IN  /\ queue' = enqueue_assets(enqueue_new(queue, new_links, item.depth + 1),
                                      new_assets)
           /\ assetRefs' = assetRefs \cup SeqToSet(new_assets)
    /\ result' = NoResult
    /\ last' = "html_routed"
    /\ wpc' = "returned"
    /\ UNCHANGED <<afterDone, requested, deepest, trace, pc, config, visited, item, stateFile, manifest, closed, runs,
                   runFetches, totalFetches, ckpt, dropped>>

\* _handle_html: target_path's mkdir or write_bytes raises OSError
HandleHtmlWriteRaises ==
    /\ IsHtmlResult
    /\ WorkerRaises
    /\ UNCHANGED <<afterDone, requested, deepest, trace, pc, config, queue, visited, item, stateFile, files, manifest, closed,
                   runs, runFetches, totalFetches, ckpt, dropped, assetRefs>>

\* _handle_html: the document is written, then extract_links raises
HandleHtmlParseRaises ==
    /\ IsHtmlResult
    /\ extract_links_raises(item.url, result.content)
    /\ files' = files \cup {HtmlFile}
    /\ WorkerRaises
    /\ UNCHANGED <<afterDone, requested, deepest, trace, pc, config, queue, visited, item, stateFile, manifest, closed,
                   runs, runFetches, totalFetches, ckpt, dropped, assetRefs>>

\* _handle_asset in a dry run: print and return
HandleAssetDiscovered ==
    /\ IsAssetResult
    /\ ~config.execute_downloads
    /\ result' = NoResult
    /\ last' = "asset_discovered"
    /\ wpc' = "returned"
    /\ UNCHANGED <<afterDone, requested, deepest, trace, pc, config, queue, visited, item, stateFile, files, manifest, closed,
                   runs, runFetches, totalFetches, ckpt, dropped, assetRefs>>

\* DownloadWriter.save: the record of a saved result
DownloadRecord(res, classification) ==
    [url          |-> res.url,
     saved_path   |-> target_path(res.url, classification, res.content_type),
     content_type |-> res.content_type,
     status_code  |-> res.status_code]

HandleAssetSaveMutRewrite ==
    /\ IsAssetResult
    /\ config.execute_downloads
    /\ LET record == DownloadRecord(result, classify_url(item.url))
       IN  /\ files' = files \cup {[path |-> record.saved_path, kind |-> "content"],
                                   [path |-> record.saved_path, kind |-> "sidecar"]}
           /\ manifest' = <<record>>
    /\ result' = NoResult
    /\ last' = "asset_saved"
    /\ wpc' = "returned"
    /\ UNCHANGED <<afterDone, requested, deepest, trace, pc, config, queue, visited, item, stateFile, closed, runs,
                   runFetches, totalFetches, ckpt, dropped, assetRefs>>

\* _handle_asset with execute_downloads: save writes the bytes, the sidecar
\* and one manifest line
HandleAssetSave ==
    /\ IsAssetResult
    /\ config.execute_downloads
    /\ LET record == DownloadRecord(result, classify_url(item.url))
       IN  /\ files' = files \cup {[path |-> record.saved_path, kind |-> "content"],
                                   [path |-> record.saved_path, kind |-> "sidecar"]}
           /\ manifest' = Append(manifest, record)
    /\ result' = NoResult
    /\ last' = "asset_saved"
    /\ wpc' = "returned"
    /\ UNCHANGED <<afterDone, requested, deepest, trace, pc, config, queue, visited, item, stateFile, closed, runs,
                   runFetches, totalFetches, ckpt, dropped, assetRefs>>

\* _handle_asset with execute_downloads: save raises OSError at write_bytes,
\* at _write_metadata or at _append_log's open
HandleAssetSaveRaises ==
    /\ IsAssetResult
    /\ config.execute_downloads
    /\ LET record == DownloadRecord(result, classify_url(item.url))
           content == [path |-> record.saved_path, kind |-> "content"]
           sidecar == [path |-> record.saved_path, kind |-> "sidecar"]
       IN  files' \in {files, files \cup {content}, files \cup {content, sidecar}}
    /\ WorkerRaises
    /\ UNCHANGED <<afterDone, requested, deepest, trace, pc, config, queue, visited, item, stateFile, manifest, closed,
                   runs, runFetches, totalFetches, ckpt, dropped, assetRefs>>

AwaitResultMutNoPersist ==
    /\ pc = "wait"
    /\ wpc = "returned"
    /\ pc' = "loop"
    /\ wpc' = "idle"
    /\ UNCHANGED <<afterDone, requested, deepest, trace, config, queue, visited, item, result, last, stateFile, files,
                   manifest, closed, runs, runFetches, totalFetches, ckpt, dropped,
                   assetRefs>>

AwaitResultMutNoWait ==
    /\ pc = "wait"
    /\ wpc \in {"fetch", "route", "returned"}
    /\ pc' = "persist"
    /\ wpc' = IF wpc = "returned" THEN "idle" ELSE wpc
    /\ UNCHANGED <<afterDone, requested, deepest, trace, config, queue, visited, item, result, last, stateFile, files,
                   manifest, closed, runs, runFetches, totalFetches, ckpt, dropped,
                   assetRefs>>

\* run: as_completed yields the finished future, completed.result() returns
AwaitResult ==
    /\ pc = "wait"
    /\ wpc = "returned"
    /\ pc' = "persist"
    /\ wpc' = "idle"
    /\ UNCHANGED <<afterDone, requested, deepest, trace, config, queue, visited, item, result, last, stateFile, files,
                   manifest, closed, runs, runFetches, totalFetches, ckpt, dropped,
                   assetRefs>>

\* run: completed.result() re-raises the worker's exception out of run
AwaitRaises ==
    /\ pc = "wait"
    /\ wpc = "raised"
    /\ pc' = "raised_item"
    /\ wpc' = "idle"
    /\ UNCHANGED <<afterDone, requested, deepest, trace, config, queue, visited, item, result, last, stateFile, files,
                   manifest, closed, runs, runFetches, totalFetches, ckpt, dropped,
                   assetRefs>>

\* persist: mkdir, then write_text opens the file for writing, which truncates it
PersistOpen ==
    /\ pc = "persist"
    /\ stateFile' = EmptyFile
    /\ pc' = "persist_write"
    /\ UNCHANGED <<afterDone, requested, deepest, trace, wpc, config, queue, visited, item, result, last, files, manifest,
                   closed, runs, runFetches, totalFetches, ckpt, dropped, assetRefs>>

\* persist: mkdir or open raises OSError, the file is as it was
PersistOpenRaises ==
    /\ pc = "persist"
    /\ pc' = "raised_persist"
    /\ UNCHANGED <<afterDone, requested, deepest, trace, wpc, config, queue, visited, item, result, last, stateFile, files,
                   manifest, closed, runs, runFetches, totalFetches, ckpt, dropped,
                   assetRefs>>

\* persist: write_text writes the whole text and closes the file
PersistWrite ==
    /\ pc = "persist_write"
    /\ \E order \in ListOrders :
          stateFile' = to_dict([queue |-> queue, visited |-> visited], order)
    /\ ckpt' = stateFile'
    /\ pc' = "loop"
    /\ UNCHANGED <<afterDone, requested, deepest, trace, wpc, config, queue, visited, item, result, last, files, manifest,
                   closed, runs, runFetches, totalFetches, dropped, assetRefs>>

PersistWriteRaisesMutSwallow ==
    /\ pc = "persist_write"
    /\ stateFile' \in {EmptyFile, PartialFile}
    /\ pc' = "loop"
    /\ UNCHANGED <<afterDone, requested, deepest, trace, wpc, config, queue, visited, item, result, last, files, manifest,
                   closed, runs, runFetches, totalFetches, ckpt, dropped, assetRefs>>

\* persist: the write raises OSError, the file is left empty or cut off
PersistWriteRaises ==
    /\ pc = "persist_write"
    /\ stateFile' \in {EmptyFile, PartialFile}
    /\ pc' = "raised_persist"
    /\ UNCHANGED <<afterDone, requested, deepest, trace, wpc, config, queue, visited, item, result, last, files, manifest,
                   closed, runs, runFetches, totalFetches, ckpt, dropped, assetRefs>>

\* what is left of the process's memory when it is killed
MemoryLost ==
    /\ pc' = "stopped"
    /\ wpc' = "idle"
    /\ deepest' = 0
    /\ queue' = <<>>
    /\ visited' = {}
    /\ item' = NoItem
    /\ result' = NoResult
    /\ last' = "none"

\* the process is killed outside persist's write
Crash ==
    /\ pc \in Running \ {"persist_write"}
    /\ MemoryLost
    /\ UNCHANGED <<afterDone, requested, trace, config, stateFile, files, manifest, closed, runs, runFetches,
                   totalFetches, ckpt, dropped, assetRefs>>

\* the process is killed between write_text's open and the end of its write
CrashInPersist ==
    /\ pc = "persist_write"
    /\ stateFile' \in {EmptyFile, PartialFile}
    /\ MemoryLost
    /\ UNCHANGED <<afterDone, requested, trace, config, files, manifest, closed, runs, runFetches,
                   totalFetches, ckpt, dropped, assetRefs>>

Next ==
    \/ Construct
    \/ ConstructLoadRaises
    \/ DequeueSkipDepth
    \/ DequeueSkipVisited
    \/ DequeueAccept
    \/ LoopExit
    \/ HttpGetRejected
    \/ HttpGetRaises
    \/ HttpGetOk
    \/ ProcessFetchFailed
    \/ HandleHtml
    \/ HandleHtmlWriteRaises
    \/ HandleHtmlParseRaises
    \/ HandleAssetDiscovered
    \/ HandleAssetSave
    \/ HandleAssetSaveRaises
    \/ AwaitResult
    \/ AwaitRaises
    \/ PersistOpen
    \/ PersistOpenRaises
    \/ PersistWrite
    \/ PersistWriteRaises
    \/ Crash
    \/ CrashInPersist

Spec == Init /\ [][Next]_vars

TypeOK ==
    /\ pc \in Running \cup Ended
    /\ wpc \in WorkerAt
    /\ trace = NoCall
    /\ deepest \in 0..(MaxDepthCfg + 1)
    /\ requested \subseteq Urls
    /\ afterDone \in BOOLEAN
    /\ visited \subseteq Urls
    /\ \A i \in 1..Len(queue) : queue[i].url \in Urls /\ queue[i].depth \in 0..(MaxDepthCfg + 1)
    /\ runs \in 0..MaxRuns


(***************************************************************************)
(* The claims.                                                             *)
(***************************************************************************)
Fetched(u) == totalFetches'[u] > totalFetches[u]
CkptVisited == IF ckpt.kind = "json" THEN SeqToSet(ckpt.visited) ELSE {}
CkptQueue == IF ckpt.kind = "json" THEN load(ckpt).queue ELSE <<>>
InMemory == [queue |-> queue, visited |-> visited]

\* C1: within one run a URL is fetched at most once: an item is dispatched
\* only when its URL has not been fetched in this run, every fetched URL is in
\* visited, and a dequeued item whose URL is in visited is discarded with no
\* fetch and no change of visited.
C1_VisitedNotRefetched ==
    /\ [](/\ \A u \in Urls : runFetches[u] <= 1
          /\ wpc = "fetch" => runFetches[item.url] = 0
          /\ pc \in Running => \A u \in Urls : runFetches[u] = 1 => u \in visited)
    /\ [][(/\ pc = "loop" /\ queue # <<>>
           /\ Head(queue).depth <= config.depth
           /\ Head(queue).url \in visited
           /\ pc' # "stopped")
          => (/\ pc' = "loop"
              /\ queue' = Tail(queue)
              /\ visited' = visited
              /\ runFetches' = runFetches)]_vars

\* a URL fetched once in this run was dequeued again and discarded
C1_Witness ==
    /\ last = "visited_skip"
    /\ item.depth <= config.depth
    /\ runFetches[item.url] = 1
    /\ pc = "loop"

\* C2: no item deeper than config.depth is dispatched or fetched, and the
\* iteration that discards an item for depth leaves visited as it was.
C2_DepthBound ==
    /\ [](/\ wpc \in {"fetch", "route"} => item.depth <= config.depth
          /\ last \in {"dispatched", "fetch_failed", "html_routed",
                       "asset_discovered", "asset_saved", "raised"}
                => item.depth <= config.depth)
    /\ [][(/\ pc = "loop" /\ queue # <<>>
           /\ Head(queue).depth > config.depth
           /\ pc' # "stopped")
          => (/\ pc' = "loop"
              /\ queue' = Tail(queue)
              /\ visited' = visited
              /\ runFetches' = runFetches)]_vars

\* a URL discarded for depth earlier in the run is dispatched at a depth
\* within the bound
C2_Witness ==
    /\ wpc = "fetch"
    /\ item.url \in dropped
    /\ item.depth <= config.depth
    /\ item.url \in visited

\* C3: processing an item that was enqueued as an asset reference (depth 0,
\* URL passed to enqueue by _enqueue_assets) enqueues nothing.
C3_AssetsAreLeaves ==
    [][(wpc = "route" /\ item.depth = 0 /\ item.url \in assetRefs)
       => Len(queue') <= Len(queue)]_vars

\* C4: a Crawler built after the last completed checkpoint starts with that
\* checkpoint's queue at the head of its queue, in order, and no URL of that
\* checkpoint's visited set is fetched again.
C4_Resumable ==
    [][/\ (runs' = runs + 1 /\ ckpt.kind = "json")
            => (pc' = "loop" /\ SubSeq(queue', 1, Len(CkptQueue)) = CkptQueue)
       /\ \A u \in Urls : Fetched(u) => u \notin CkptVisited]_vars

\* C5: whenever the process has stopped, the state file is the last completed
\* checkpoint (no file when there is none), and no load fails.
C5_PersistAtomic ==
    /\ pc = "stopped" => stateFile = ckpt
    /\ pc # "load_error"

\* C6 as stated: over all runs no URL is fetched twice, and every URL ever
\* accepted is in visited.
C6_NeverFetchedTwice ==
    /\ \A u \in Urls : totalFetches[u] <= 1
    /\ pc \in Running => \A u \in Urls : totalFetches[u] > 0 => u \in visited

\* C6 amended: a URL is fetched at most once per run, an accepted URL is in
\* visited for the rest of its run, and no URL in the visited set of the last
\* completed checkpoint is fetched again.
C6_FetchedOncePerCheckpoint ==
    /\ [](/\ \A u \in Urls : totalFetches[u] <= runs
          /\ pc \in Running =>
                \A u \in Urls : (runFetches[u] > 0 \/ (wpc = "fetch" /\ u = item.url))
                                   => u \in visited)
    /\ [][\A u \in Urls : Fetched(u) =>
             /\ runFetches[u] = 0
             /\ u \in visited
             /\ u \notin CkptVisited]_vars

\* in a second run, an item of the loaded queue whose URL a completed
\* checkpoint holds as visited is discarded without a fetch
C6_Witness ==
    /\ runs = 2
    /\ pc = "loop"
    /\ last = "visited_skip"
    /\ item.depth <= config.depth
    /\ item.url \in CkptVisited
    /\ runFetches[item.url] = 0
    /\ totalFetches[item.url] = 1

\* C7: no failure of _handle_html or _handle_asset leaves Crawler.run.
C7_ItemFailuresCaught == pc # "raised_item"

\* C8: when http.get raised for the item, _process_url changes neither the
\* queue nor visited nor any file, the item's URL stays in visited, and the
\* run goes on to the checkpoint.
C8_FetchFailureDropsItem ==
    /\ [][(wpc = "route" /\ result = Failed /\ pc' # "stopped")
          => (/\ wpc' = "returned"
              /\ last' = "fetch_failed"
              /\ queue' = queue
              /\ visited' = visited
              /\ item.url \in visited'
              /\ files' = files
              /\ manifest' = manifest)]_vars
    /\ [][(wpc = "returned" /\ last = "fetch_failed" /\ wpc' # "returned"
              /\ pc' # "stopped")
          => (/\ pc' = "persist"
              /\ queue' = queue
              /\ visited' = visited)]_vars

\* after a failed fetch the loop is back at its head with more items to
\* take, the failed URL visited and not in the queue
C8_Witness ==
    /\ pc = "loop"
    /\ last = "fetch_failed"
    /\ queue # <<>>
    /\ item.url \in visited
    /\ \A i \in 1..Len(queue) : queue[i].url # item.url

\* C9: when the loop is at its head after a dispatch of this run, the state
\* file holds the in-memory visited set and a queue that ends with the
\* in-memory queue; and the write that completes a persist leaves a file that
\* loads to exactly the in-memory queue and visited set.
C9_CheckpointAfterEveryItem ==
    /\ []((pc = "loop" /\ \E u \in Urls : runFetches[u] > 0)
            => (/\ stateFile.kind = "json"
                /\ load(stateFile).visited = visited
                /\ EndsWith(load(stateFile).queue, queue)))
    /\ [][(pc = "persist_write" /\ pc' = "loop") => load(stateFile') = InMemory']_vars

\* the checkpoint after a failed fetch: the file equals memory
C9_Witness ==
    /\ pc = "loop"
    /\ last = "fetch_failed"
    /\ stateFile = ckpt
    /\ stateFile.kind = "json"
    /\ load(stateFile) = InMemory
    /\ item.url \in SeqToSet(stateFile.visited)

\* C10: in a dry run nothing is written under the archive root beside the
\* state file: no content file, no sidecar, no manifest line.
C10_DryRunWritesNothing ==
    ~config.execute_downloads => (files = {} /\ manifest = <<>>)

\* the record save builds for the item in hand, and its sidecar file
ItemRecord == DownloadRecord(result, classify_url(item.url))
Sidecar(record) == [path |-> record.saved_path, kind |-> "sidecar"]
SaveStarts == IsAssetResult /\ config.execute_downloads

\* C11 as stated: in execute mode every successfully fetched non-HTML item
\* produces one record, written as a sidecar and appended as one manifest line.
C11_RecordPerFetchedAsset ==
    [][(SaveStarts /\ wpc' # "route" /\ pc' # "stopped")
       => (/\ manifest' = Append(manifest, ItemRecord)
           /\ Sidecar(ItemRecord) \in files')]_vars

\* C11 amended: a save that returns appends exactly one record, the item's, to
\* the manifest and leaves that record's sidecar on disk; a save that raises
\* adds no manifest line; the manifest changes in no other step and only by
\* growing at its end; every manifest line has its sidecar.
C11_RecordPerSavedAsset ==
    /\ [](\A i \in 1..Len(manifest) : Sidecar(manifest[i]) \in files)
    /\ [][/\ Len(manifest') >= Len(manifest)
          /\ SubSeq(manifest', 1, Len(manifest)) = manifest
          /\ (SaveStarts /\ wpc' = "returned")
                => (/\ manifest' = Append(manifest, ItemRecord)
                    /\ ItemRecord.url = item.url
                    /\ Sidecar(ItemRecord) \in files')
          /\ (SaveStarts /\ wpc' = "raised") => manifest' = manifest
          /\ manifest' # manifest => (SaveStarts /\ wpc' = "returned")]_vars

\* a second save has appended its line behind the line of an earlier save
C11_Witness ==
    /\ last = "asset_saved"
    /\ wpc = "returned"
    /\ Len(manifest) = 2
    /\ manifest[2].url = item.url

\* C12: a run that has ended with no persistence failure (and that was not
\* killed) is in DONE: the queue is empty, the loop was left and the HTTP
\* client is closed.
C12_RunEndsDone ==
    (pc \in Ended \ {"off", "stopped", "raised_persist", "load_error"})
        => (pc = "done" /\ queue = <<>> /\ closed)

\* the main thread is inside state.persist
Persisting == pc \in {"persist", "persist_write"}

\* C13: persist runs only in the main thread and only while no worker is
\* running: whenever the main thread is inside persist the worker is idle,
\* whenever the worker is not idle the main thread is waiting for it, and no
\* step taken during a persist changes the queue or the visited set.
C13_PersistSingleWriter ==
    /\ [](Persisting => wpc = "idle")
    /\ [](wpc # "idle" => pc = "wait")
    /\ [][(Persisting /\ pc' # "stopped")
          => (queue' = queue /\ visited' = visited)]_vars

\* a persist is writing the queue that the worker's _handle_html extended
C13_Witness ==
    /\ pc = "persist_write"
    /\ wpc = "idle"
    /\ last = "html_routed"
    /\ Len(queue) >= 2

\* C14: for every reachable state and every order in which list(set) may
\* enumerate visited, load of the text that persist writes does not raise and
\* returns the same queue (items, order, depths) and the same visited set; load
\* of a path with no file returns the empty state.
C14_RoundTrip ==
    /\ \A order \in ListOrders :
          /\ ~load_raises(to_dict(InMemory, order))
          /\ load(to_dict(InMemory, order)) = InMemory
    /\ ~load_raises(NoFile)
    /\ load(NoFile) = [queue |-> <<>>, visited |-> {}]

\* a completed persist of a queue of two items at different depths and of
\* two visited URLs, written in the order that is not the model's own
C14_Witness ==
    /\ pc = "loop"
    /\ Len(queue) >= 2
    /\ queue[1].depth # queue[2].depth
    /\ Cardinality(visited) >= 2
    /\ stateFile = to_dict(InMemory, Reverse(UrlOrder))
    /\ stateFile # to_dict(InMemory, UrlOrder)

(***************************************************************************)
(* Functions exercised on their own: the crawler does not run, its          *)
(* variables keep their initial values, and trace holds the latest call.    *)
(***************************************************************************)
CrawlerOff ==
    /\ config = [start_url |-> StartUrl, allowed_domain |-> AllowedDomain, depth |-> 0,
                 execute_downloads |-> FALSE, include_patterns |-> <<>>,
                 exclude_patterns |-> <<>>]
    /\ pc = "off"
    /\ wpc = "idle"
    /\ deepest = 0
    /\ requested = {}
    /\ afterDone = FALSE
    /\ item = NoItem
    /\ result = NoResult
    /\ last = "none"
    /\ stateFile = NoFile
    /\ files = {}
    /\ manifest = <<>>
    /\ closed = FALSE
    /\ runs = 0
    /\ runFetches = NoFetches
    /\ totalFetches = NoFetches
    /\ ckpt = NoFile
    /\ dropped = {}
    /\ assetRefs = {}

CrawlerStaysOff ==
    UNCHANGED <<afterDone, requested, deepest, config, pc, wpc, item, result, last, stateFile, files, manifest, closed,
                runs, runFetches, totalFetches, ckpt, dropped, assetRefs>>

(***************************************************************************)
(* CrawlState.enqueue and CrawlState.dequeue under any sequence of calls.   *)
(***************************************************************************)
MaxCalls == 5
QueueUrls == {StartUrl, PageA}
QueueDepths == 0..1

\* a CrawlState with an empty queue and any visited set
QueueInit ==
    /\ CrawlerOff
    /\ queue = <<>>
    /\ visited \in SUBSET QueueUrls
    /\ trace = [fn |-> "new", calls |-> 0, enqueued |-> <<>>, dequeued |-> <<>>,
                raised |-> FALSE]

CallEnqueue ==
    /\ trace.calls < MaxCalls
    /\ \E url \in QueueUrls, depth \in QueueDepths :
          /\ queue' = enqueue(queue, url, depth)
          /\ trace' = [fn |-> "enqueue", calls |-> trace.calls + 1,
                       enqueued |-> Append(trace.enqueued, CrawlQueueItem(url, depth)),
                       dequeued |-> trace.dequeued, raised |-> FALSE]
    /\ UNCHANGED visited
    /\ CrawlerStaysOff

CallDequeue ==
    /\ trace.calls < MaxCalls
    /\ ~dequeue_raises(queue)
    /\ queue' = dequeue(queue).queue
    /\ trace' = [fn |-> "dequeue", calls |-> trace.calls + 1,
                 enqueued |-> trace.enqueued,
                 dequeued |-> Append(trace.dequeued, dequeue(queue).item),
                 raised |-> FALSE]
    /\ UNCHANGED visited
    /\ CrawlerStaysOff

CallDequeueRaises ==
    /\ trace.calls < MaxCalls
    /\ dequeue_raises(queue)
    /\ trace' = [fn |-> "dequeue", calls |-> trace.calls + 1,
                 enqueued |-> trace.enqueued, dequeued |-> trace.dequeued,
                 raised |-> TRUE]
    /\ UNCHANGED <<queue, visited>>
    /\ CrawlerStaysOff

QueueNext ==
    \/ CallEnqueue
    \/ CallDequeue
    \/ CallDequeueRaises

QueueSpec == QueueInit /\ [][QueueNext]_vars

\* C15: the items dequeue has returned, followed by the items still in the
\* queue, are the enqueued items in enqueue order; a dequeue on a queue that
\* is not empty returns its oldest item and removes only that one; a dequeue on
\* an empty queue raises and leaves queue and visited unchanged; no call
\* changes visited.
C15_Fifo ==
    /\ [](trace.dequeued \o queue = trace.enqueued)
    /\ [][(trace'.calls # trace.calls /\ trace'.fn = "dequeue") =>
             IF queue = <<>>
             THEN trace'.raised /\ queue' = queue /\ visited' = visited
             ELSE /\ ~trace'.raised
                  /\ trace'.dequeued = Append(trace.dequeued, queue[1])
                  /\ queue' = SubSeq(queue, 2, Len(queue))]_vars
    /\ [][visited' = visited]_vars

\* two different items went in and came out in that order, and the call
\* after them, a dequeue on the empty queue, raised
C15_Witness ==
    /\ Len(trace.enqueued) = 2
    /\ Len(trace.dequeued) = 2
    /\ trace.dequeued[1] # trace.dequeued[2]
    /\ trace.calls = 5
    /\ trace.fn = "dequeue"
    /\ trace.raised
    /\ visited # {}

(***************************************************************************)
(* classify_url on its own, over URLs built from a scheme and host or      *)
(* none, a path with every kind of ending, a query and a fragment.         *)
(***************************************************************************)
ClassifyEndings ==
    AudioExt \cup ImagesExt \cup DocumentsExt
        \cup {".html", ".htm", ".HTML", ".HTM", ".MP3", ".JPG", ".PDF", ":plain", ":PLAIN",
              ".zip"}
ClassifyPaths ==
    {<<>>, <<"/">>, <<"/", "a">>, <<"/", "a", "/">>}
        \cup {<<"/", "a", e>> : e \in ClassifyEndings}
        \cup {<<"/", "a", e, "/">> : e \in ClassifyEndings}
        \cup {<<"/", "a", e, "x">> : e \in ClassifyEndings}
ClassifyQueries == {<<>>, <<"?", "q", ".mp3">>, <<"?", "q", "/">>}
ClassifyFragments == {<<>>, <<"#", "f", ".html">>}
ClassifyOrigins == {<<>>, <<"https", "://", "k.io">>, <<"http", "://", "[">>}
ClassifyUrls ==
    {o \o p \o q \o f : o \in ClassifyOrigins, p \in ClassifyPaths,
                        q \in ClassifyQueries, f \in ClassifyFragments}

\* the argument of the call that is about to be made
ClassifyInit ==
    /\ CrawlerOff
    /\ queue = <<>>
    /\ visited = {}
    /\ \E url \in ClassifyUrls : trace = [fn |-> "input", url |-> url]

CallClassify ==
    /\ trace.fn = "input"
    /\ ~classify_url_raises(trace.url)
    /\ trace' = [fn |-> "classify_url", url |-> trace.url, raised |-> FALSE,
                 returned |-> classify_url(trace.url)]
    /\ UNCHANGED <<queue, visited>>
    /\ CrawlerStaysOff

CallClassifyRaises ==
    /\ trace.fn = "input"
    /\ classify_url_raises(trace.url)
    /\ trace' = [fn |-> "classify_url", url |-> trace.url, raised |-> TRUE,
                 returned |-> "none"]
    /\ UNCHANGED <<queue, visited>>
    /\ CrawlerStaysOff

ClassifyNext ==
    \/ CallClassify
    \/ CallClassifyRaises

ClassifySpec == ClassifyInit /\ [][ClassifyNext]_vars

\* the last atom of the lower-cased path of url, "" for an empty path
PathEnding(url) ==
    LET path == Lower(urlparse(url).path)
    IN  IF path = <<>> THEN "" ELSE path[Len(path)]

\* url without its query and its fragment
WithoutQueryFragment(url) == SubSeq(url, 1, FirstIn(url, {"?", "#"}) - 1)

\* C16 as stated: for every URL that parses, classify_url returns the
\* category of the extension the lower-cased path ends in, html for a path
\* ending in "/", ".html" or ".htm", and other for every other path.
C16_ClassifyAsStated ==
    (trace.fn = "classify_url" /\ ~trace.raised) =>
        trace.returned =
            (IF PathEnding(trace.url) \in AudioExt THEN "audio"
             ELSE IF PathEnding(trace.url) \in ImagesExt THEN "images"
             ELSE IF PathEnding(trace.url) \in DocumentsExt THEN "documents"
             ELSE IF PathEnding(trace.url) \in {"/", ".html", ".htm"} THEN "html"
             ELSE "other")

\* C16 amended: classify_url raises exactly when urlparse does; otherwise it
\* returns the category of the extension the lower-cased path ends in,
\* documents for a lower-cased path ending in ":plain", html for a lower-cased
\* path ending in "/", ".html" or ".htm", and other for every other path; the
\* result is the one for the URL without its query and fragment; no path ends
\* in extensions of two categories, so the order of the categories is
\* immaterial.
C16_ClassifyRule ==
    /\ trace.fn = "classify_url" =>
          /\ trace.raised = UrlRaises(trace.url)
          /\ ~trace.raised =>
                /\ trace.returned \in {"audio", "images", "documents", "html", "other"}
                /\ trace.returned =
                      (IF PathEnding(trace.url) \in AudioExt THEN "audio"
                       ELSE IF PathEnding(trace.url) \in ImagesExt THEN "images"
                       ELSE IF PathEnding(trace.url) \in DocumentsExt THEN "documents"
                       ELSE IF PathEnding(trace.url) = ":plain" THEN "documents"
                       ELSE IF PathEnding(trace.url) \in {"/", ".html", ".htm"} THEN "html"
                       ELSE "other")
                /\ trace.returned = classify_url(WithoutQueryFragment(trace.url))
    /\ AudioExt \cap ImagesExt = {}
    /\ AudioExt \cap DocumentsExt = {}
    /\ ImagesExt \cap DocumentsExt = {}

\* an upper-case audio extension in the path, with a query and a fragment
\* that end in other extensions
C16_Witness ==
    /\ trace.fn = "classify_url"
    /\ trace.url = <<"https", "://", "k.io", "/", "a", ".MP3", "?", "q", "/", "#", "f", ".html">>
    /\ trace.returned = "audio"

(***************************************************************************)
(* filter_domain on its own, over lists of URLs with and without a scheme,  *)
(* on the allowed host, on a subdomain of it, on another host, and on       *)
(* another host with the allowed domain as userinfo.                        *)
(***************************************************************************)
MaxFilterLen == 3
FilterUrls ==
    {PageA, EvilUrl, RelRoot, <<"https", "://", "cdn.", "k.io", "/">>, UserinfoUrl}
FilterDomains == {AllowedDomain, <<>>}
FilterLists == UNION {[1..n -> FilterUrls] : n \in 0..MaxFilterLen}

\* the arguments of the call that is about to be made
FilterInit ==
    /\ CrawlerOff
    /\ queue = <<>>
    /\ visited = {}
    /\ \E urls \in FilterLists, d \in FilterDomains :
          trace = [fn |-> "input", urls |-> urls, allowed_domain |-> d]

CallFilter ==
    /\ trace.fn = "input"
    /\ trace' = [fn |-> "filter_domain", urls |-> trace.urls,
                 allowed_domain |-> trace.allowed_domain,
                 returned |-> filter_domain(trace.urls, trace.allowed_domain)]
    /\ UNCHANGED <<queue, visited>>
    /\ CrawlerStaysOff

FilterNext == CallFilter

FilterSpec == FilterInit /\ [][FilterNext]_vars

\* C17: filter_domain returns the subsequence of its input, in input order
\* and with its duplicates, of the URLs that have a scheme and whose host
\* contains the allowed domain.
C17_FilterByHost ==
    trace.fn = "filter_domain" =>
        trace.returned =
            SelectSeq(trace.urls, LAMBDA url :
                /\ urlparse(url).scheme # <<>>
                /\ IsSubstr(trace.allowed_domain, hostname(urlparse(url).netloc)))

\* what extract_links returns for the page in hand
PageLinks == SeqToSet(extract_links(item.url, result.content).links)
PageAssets == SeqToSet(extract_links(item.url, result.content).assets)

\* C18: a _handle_html that returns for a page of depth D leaves the old
\* queue in place and appends first items of depth D+1 whose URLs are links of
\* the page, then items of depth 0 whose URLs are asset references of the
\* page; the queue grows in no other step of a run; no queue item has a
\* negative depth.
C18_DepthMonotone ==
    /\ [](\A i \in 1..Len(queue) : queue[i].depth >= 0)
    /\ [][(IsHtmlResult /\ wpc' = "returned") =>
             /\ SubSeq(queue', 1, Len(queue)) = queue
             /\ \E k \in Len(queue)..Len(queue') :
                   /\ \A i \in (Len(queue) + 1)..k :
                         queue'[i].depth = item.depth + 1 /\ queue'[i].url \in PageLinks
                   /\ \A i \in (k + 1)..Len(queue') :
                         queue'[i].depth = 0 /\ queue'[i].url \in PageAssets]_vars
    /\ [][(Len(queue') > Len(queue) /\ runs' = runs) => IsHtmlResult]_vars

\* a page of depth 1 was handled, and the queue holds a link item of depth 2
\* and an asset item of depth 0
C18_Witness ==
    /\ last = "html_routed"
    /\ wpc = "returned"
    /\ item.depth = 1
    /\ \E i, j \in 1..Len(queue) : queue[i].depth = 2 /\ queue[j].depth = 0

\* C19: a persist that does not get to write, or whose write does not leave
\* the whole text, ends the run with the error (unless the process was
\* killed); from then on this run dequeues nothing, fetches nothing and changes
\* neither the queue nor visited.
C19_PersistFailureFatal ==
    /\ [][(pc = "persist" /\ pc' \notin {"persist", "persist_write", "stopped"})
          => pc' = "raised_persist"]_vars
    /\ [][(pc = "persist_write" /\ stateFile'.kind # "json" /\ pc' # "stopped")
          => (pc' = "raised_persist" /\ queue' = queue /\ visited' = visited)]_vars
    /\ [][(pc = "raised_persist" /\ runs' = runs)
          => (/\ pc' = "raised_persist"
              /\ wpc' = "idle"
              /\ queue' = queue
              /\ visited' = visited
              /\ item' = item
              /\ totalFetches' = totalFetches)]_vars
    /\ [](pc = "raised_persist" => wpc = "idle")

\* the run ended on a failed write with items still in the queue
C19_Witness ==
    /\ pc = "raised_persist"
    /\ stateFile.kind = "partial"
    /\ queue # <<>>
    /\ \E u \in Urls : runFetches[u] > 0

(***************************************************************************)
(* Runs one level deeper than MaxDepthCfg, on either site.                  *)
(***************************************************************************)
DeepConfigs ==
    [start_url : {StartUrl, EvilUrl, DeepStart},
     allowed_domain : {AllowedDomain},
     depth : {MaxDepthCfg + 1},
     execute_downloads : BOOLEAN,
     include_patterns : {<<>>},
     exclude_patterns : {<<>>}]

DeepInit ==
    /\ config \in DeepConfigs
    /\ pc = "off"
    /\ wpc = "idle"
    /\ trace = NoCall
    /\ deepest = 0
    /\ requested = {}
    /\ afterDone = FALSE
    /\ queue = <<>>
    /\ visited = {}
    /\ item = NoItem
    /\ result = NoResult
    /\ last = "none"
    /\ stateFile = NoFile
    /\ files = {}
    /\ manifest = <<>>
    /\ closed = FALSE
    /\ runs = 0
    /\ runFetches = NoFetches
    /\ totalFetches = NoFetches
    /\ ckpt = NoFile
    /\ dropped = {}
    /\ assetRefs = {}

DeepSpec == DeepInit /\ [][Next]_vars

\* C20: in the first run, which starts from no state file, every link item
\* (an item of depth 1 or more) that is dispatched is at least as deep as
\* every item dispatched before it in that run.
C20_BreadthFirst ==
    [][(runs = 1 /\ pc = "loop" /\ pc' = "wait" /\ item'.depth >= 1)
       => item'.depth >= deepest]_vars

(***************************************************************************)
(* _enqueue_new on its own, under include and exclude patterns.             *)
(***************************************************************************)
MaxLinks == 2
PageAFrag == <<"https", "://", "k.io", "/", "a", ".html", "#", "top">>
VisitUrls == {StartUrl, PageA, PageC, SoundUrl, PageAFrag}
VisitIncludes == {<<>>, << <<"a">> >>, << <<"/", "c">>, <<".html">> >>}
VisitExcludes == {<<>>, << <<"a", ".html">> >>, << <<".MP3">>, <<"c">> >>}
VisitLists == UNION {[1..n -> VisitUrls] : n \in 0..MaxLinks}

\* a crawler that has not run, with patterns configured, some URLs visited
\* and the links of a page about to be passed to _enqueue_new
VisitInit ==
    /\ config \in [start_url : {StartUrl}, allowed_domain : {AllowedDomain},
                   depth : {MaxDepthCfg}, execute_downloads : {FALSE},
                   include_patterns : VisitIncludes, exclude_patterns : VisitExcludes]
    /\ visited \in SUBSET {StartUrl, PageA}
    /\ queue = <<CrawlQueueItem(PageC, 0)>>
    /\ \E links \in VisitLists : trace = [fn |-> "input", links |-> links, depth |-> 1]
    /\ pc = "off"
    /\ wpc = "idle"
    /\ deepest = 0
    /\ requested = {}
    /\ afterDone = FALSE
    /\ item = NoItem
    /\ result = NoResult
    /\ last = "none"
    /\ stateFile = NoFile
    /\ files = {}
    /\ manifest = <<>>
    /\ closed = FALSE
    /\ runs = 0
    /\ runFetches = NoFetches
    /\ totalFetches = NoFetches
    /\ ckpt = NoFile
    /\ dropped = {}
    /\ assetRefs = {}

CallEnqueueNew ==
    /\ trace.fn = "input"
    /\ queue' = enqueue_new(queue, to_visit(config, visited, trace.links), trace.depth)
    /\ trace' = [fn |-> "_enqueue_new", links |-> trace.links, depth |-> trace.depth]
    /\ UNCHANGED visited
    /\ CrawlerStaysOff

VisitNext == CallEnqueueNew

VisitSpec == VisitInit /\ [][VisitNext]_vars

\* the four conditions of the claim, each stated on the URL itself
PassesFilters(url) ==
    /\ \A i \in 1..Len(config.exclude_patterns) : ~IsSubstr(config.exclude_patterns[i], url)
    /\ \/ Len(config.include_patterns) = 0
       \/ \E i \in 1..Len(config.include_patterns) : IsSubstr(config.include_patterns[i], url)
    /\ "#" \notin SeqToSet(url) \/ url[Len(url)] = "#"
    /\ url \notin visited

\* C21: _enqueue_new appends to the queue, in list order and at the given
\* depth, exactly the links that match no exclude pattern, match an include
\* pattern when there is one, have an empty fragment and are not in visited; it
\* changes nothing else.
C21_EnqueueIffFilters ==
    [][(trace.fn = "input" /\ trace'.fn = "_enqueue_new") =>
          LET kept == SelectSeq(trace.links, PassesFilters)
          IN  /\ queue' = queue \o [i \in 1..Len(kept) |-> CrawlQueueItem(kept[i], trace.depth)]
              /\ visited' = visited
              /\ \A i \in 1..Len(trace.links) :
                    (\E j \in (Len(queue) + 1)..Len(queue') : queue'[j].url = trace.links[i])
                        <=> PassesFilters(trace.links[i])]_vars

\* of two links that both match the include pattern, the one that also
\* matches the exclude pattern was left out and the other was enqueued
C21_Witness ==
    /\ trace.fn = "_enqueue_new"
    /\ config.include_patterns = << <<"/", "c">>, <<".html">> >>
    /\ config.exclude_patterns = << <<"a", ".html">> >>
    /\ trace.links = <<PageA, PageC>>
    /\ PageA \notin visited
    /\ queue = <<CrawlQueueItem(PageC, 0), CrawlQueueItem(PageC, 1)>>

\* a Crawler has just been constructed
Constructed == runs' = runs + 1 /\ pc' = "loop"

\* C22: a construction that succeeds leaves the state file as it is; with no
\* state file the queue is the one item (start_url, 0) and visited is empty;
\* with a state file whose queue is empty the queue is that one item and
\* visited is the file's; with a state file whose queue is not empty the queue
\* is the file's queue, in order, and visited is the file's.
C22_InitSeeds ==
    [][Constructed =>
          /\ stateFile' = stateFile
          /\ stateFile.kind \in {"none", "json"}
          /\ stateFile.kind = "none" =>
                (queue' = <<CrawlQueueItem(config.start_url, 0)>> /\ visited' = {})
          /\ stateFile.kind = "json" =>
                /\ visited' = SeqToSet(stateFile.visited)
                /\ Len(stateFile.queue) = 0 =>
                      queue' = <<CrawlQueueItem(config.start_url, 0)>>
                /\ Len(stateFile.queue) > 0 =>
                      /\ Len(queue') = Len(stateFile.queue)
                      /\ \A i \in 1..Len(queue') :
                            /\ queue'[i].url = stateFile.queue[i].url
                            /\ queue'[i].depth = stateFile.queue[i].depth]_vars

\* a second Crawler built on a state file with an empty queue: the queue is
\* the start URL alone, although the loaded visited set holds it
C22_Witness ==
    /\ runs = 2
    /\ pc = "loop"
    /\ last = "none"
    /\ item = NoItem
    /\ stateFile.kind = "json"
    /\ stateFile.queue = <<>>
    /\ queue = <<CrawlQueueItem(config.start_url, 0)>>
    /\ visited = SeqToSet(stateFile.visited)
    /\ config.start_url \in visited

\* the main loop takes an item from the queue
Dequeues == pc = "loop" /\ runs' = runs /\ queue # <<>> /\ queue' = Tail(queue)

\* C23: the worker is busy only while the main thread waits for it, so at
\* most one item is in flight; the main loop takes an item only when the
\* worker is idle, no result is pending, and the state file is a complete
\* checkpoint whose visited list holds every URL dispatched in this run; a
\* dispatch puts exactly the dequeued item in flight.
C23_Serialized ==
    /\ [](wpc \in {"fetch", "route", "returned", "raised"} => pc = "wait")
    /\ [](pc = "wait" => (wpc # "idle" /\ item.url \in visited))
    /\ [][Dequeues =>
             /\ wpc = "idle"
             /\ result = NoResult
             /\ (\E u \in Urls : runFetches[u] > 0) =>
                   /\ stateFile.kind = "json"
                   /\ \A u \in Urls : runFetches[u] > 0 => u \in SeqToSet(stateFile.visited)
             /\ wpc' # "idle" => (wpc' = "fetch" /\ pc' = "wait" /\ item' = Head(queue))]_vars

\* an item is in flight while others wait in the queue, and the item
\* dispatched before it is in the checkpoint on disk
C23_Witness ==
    /\ pc = "wait"
    /\ wpc = "fetch"
    /\ Len(queue) >= 2
    /\ stateFile.kind = "json"
    /\ item.url \notin SeqToSet(stateFile.visited)
    /\ \E u \in Urls : runFetches[u] = 1 /\ u \in SeqToSet(stateFile.visited)

\* url has a host, and the host does not contain the allowed domain
ForeignHost(url) ==
    /\ hostname(urlparse(url).netloc) # <<>>
    /\ ~IsSubstr(config.allowed_domain, hostname(urlparse(url).netloc))

\* C24: every item a _handle_html that returns has enqueued has a scheme and
\* a host that contains allowed_domain, and session.get is never called for a
\* URL whose host is not empty and does not contain allowed_domain.
C24_DomainScoped ==
    /\ [][(IsHtmlResult /\ wpc' = "returned") =>
             \A i \in (Len(queue) + 1)..Len(queue') :
                /\ urlparse(queue'[i].url).scheme # <<>>
                /\ IsSubstr(config.allowed_domain, hostname(urlparse(queue'[i].url).netloc))]_vars
    /\ [](\A u \in requested : ~ForeignHost(u))

(***************************************************************************)
(* Re-running a finished crawl.                                            *)
(***************************************************************************)
\* the state a new Crawler would load from the state file
Persisted == load(stateFile)

\* a queue whose every item the head of the loop body discards
AllSkipped(q, vis) == \A i \in 1..Len(q) : skip_reason(q[i], config, vis) # "none"

\* C25: when a run has reached DONE, the state file loads and every item of
\* the persisted queue is deeper than config.depth or in the persisted visited
\* set; a run built on that file never leaves the loop for a fetch (no
\* http.get, no worker, nothing added to visited), every step of its loop
\* shortens the queue, and on the empty queue it ends at DONE.
C25_RerunIsNoOp ==
    /\ [](pc = "done" =>
            /\ ~load_raises(stateFile)
            /\ \A i \in 1..Len(Persisted.queue) :
                  \/ Persisted.queue[i].depth > config.depth
                  \/ Persisted.queue[i].url \in Persisted.visited)
    /\ [](afterDone =>
            /\ pc \in {"loop", "done", "stopped"}
            /\ wpc = "idle"
            /\ runFetches = NoFetches
            /\ (pc = "loop" => AllSkipped(queue, visited))
            /\ (pc = "loop" /\ queue = <<>> => ENABLED LoopExit))
    /\ [][afterDone /\ pc = "loop" /\ pc' # "stopped" =>
             /\ totalFetches' = totalFetches
             /\ stateFile' = stateFile
             /\ visited' = visited
             /\ \/ pc' = "loop" /\ Len(queue') < Len(queue)
                \/ pc' = "done" /\ queue = <<>>]_vars

\* a second run, built after the first reached DONE with items left in the
\* persisted queue, has reached DONE without a fetch
C25_Witness ==
    /\ afterDone
    /\ pc = "done"
    /\ runs = 2
    /\ stateFile.kind = "json"
    /\ stateFile.queue # <<>>
    /\ runFetches = NoFetches
    /\ \E u \in Urls : totalFetches[u] > 0

=============================================================================
